---- MODULE Spec2Model ----
(***************************************************************************)
(* Country-Currency-Exchange API: the refresh pipeline                     *)
(* (CountriesService.refreshCountriesandSave), the summary generator, the  *)
(* search, the delete by name, the list, the status and the image          *)
(* retrieval of CountriesService and the HTTP status mapping of            *)
(* CountriesController.                                                    *)
(*                                                                         *)
(* Encodings.  A JavaScript string that the code inspects character by     *)
(* character (a country name, a search term) is a sequence of one-letter   *)
(* strings.  A nullable value is a sequence of length 0 (null/undefined)   *)
(* or 1.  An exchange rate is an integer number of tenths; estimated_gbp   *)
(* is an integer number of hundredths (toFixed(2), column decimal(15,2)).  *)
(***************************************************************************)
EXTENDS Integers, Sequences, FiniteSets, TLC

\* ------------------------------------------------------------------ bounds
\* Largest value of the wall clock (last_refreshed_at, image timestamp).
MaxClock == 1
\* Number of delete requests accepted in one behaviour.
MaxDeletes == 1

\* --------------------------------------------------------- program constants
\* find({ order: { estimated_gbp: 'DESC' }, take: 5 })
TopN == 5
\* Math.random() * 1000 + 1000
MultiplierBase == 1000
MultiplierSpan == 1000
\* estimatedGbp.toFixed(2): hundredths
CentsPerUnit == 100

\* HTTP status codes (HttpStatus.*, statusCode fields, the framework's defaults)
HttpOk == 200
HttpCreated == 201
HttpBadRequest == 400
HttpNotFound == 404
HttpInternalError == 500
HttpServiceUnavailable == 503

\* ------------------------------------------------------------ nullable values
Null == <<>>
Some(v) == <<v>>
IsNull(o) == o = <<>>
Val(o) == o[1]

\* a || dflt   for a nullable string: null, undefined and "" are falsy
OrElse(o, dflt) == IF IsNull(o) \/ Val(o) = "" THEN dflt ELSE o

\* ------------------------------------------------------------------- strings
\* String.prototype.toLowerCase on the letters the model uses
LowerChar(c) ==
  CASE c = "A" -> "a"
    [] c = "B" -> "b"
    [] c = "U" -> "u"
    [] OTHER -> c

ToLowerCase(s) == [i \in 1..Len(s) |-> LowerChar(s[i])]

IsSpace(c) == c = " "

RECURSIVE TrimLeft(_)
TrimLeft(s) == IF s # <<>> /\ IsSpace(Head(s)) THEN TrimLeft(Tail(s)) ELSE s

RECURSIVE TrimRight(_)
TrimRight(s) ==
  IF s # <<>> /\ IsSpace(s[Len(s)]) THEN TrimRight(SubSeq(s, 1, Len(s) - 1)) ELSE s

\* String.prototype.trim
Trim(s) == TrimRight(TrimLeft(s))

\* s contains t as a contiguous substring
Contains(s, t) ==
  \E i \in 1..(Len(s) - Len(t) + 1) : SubSeq(s, i, i + Len(t) - 1) = t

\* SQL LIKE: % matches any run of characters, _ matches exactly one character
RECURSIVE LikeMatch(_, _)
LikeMatch(pat, s) ==
  IF pat = <<>> THEN s = <<>>
  ELSE IF Head(pat) = "%"
       THEN \E k \in 0..Len(s) : LikeMatch(Tail(pat), SubSeq(s, k + 1, Len(s)))
  ELSE IF s = <<>> THEN FALSE
  ELSE IF Head(pat) = "_" THEN LikeMatch(Tail(pat), Tail(s))
  ELSE Head(pat) = Head(s) /\ LikeMatch(Tail(pat), Tail(s))

\* ------------------------------------------------------- external source data
\* Country names returned by the countries API.  <<>> is a missing (or empty) name.
NameAb == <<"A", "b">>
NameLowerAb == <<"a", "b">>
NameUnknown == <<"U", "n", "k", "n", "o", "w", "n">>
RegionUnknown == "Unknown"

Codes == {"USD", "EUR", "GBP"}

\* c.population as the API sends it: a number, nothing, or a non-numeric value
PopNum(n) == [k |-> "num", v |-> n]
PopNone == [k |-> "none", v |-> 0]
PopText == [k |-> "nan", v |-> 0]

\* c.currencies: absent, or an array of entries whose code may be null
CurNone == [k |-> "none", codes |-> <<>>]
CurList(cs) == [k |-> "list", codes |-> cs]

Raw(n, cap, reg, pop, cur, flag) ==
  [name |-> n, capital |-> cap, region |-> reg, population |-> pop,
   currencies |-> cur, flag |-> flag]

RawFrance == Raw(NameAb, Some("Paris"), Some("Europe"), PopNum(100),
                 CurList(<<Some("USD")>>), Some("fr.svg"))
RawFranceNew == Raw(NameAb, Null, Null, PopNum(3),
                    CurList(<<Some("EUR"), Some("USD")>>), Null)
RawLower == Raw(NameLowerAb, Some("Paris"), Some("Europe"), PopNum(0),
                CurList(<<Some("USD")>>), Some("fr.svg"))
RawNameless == Raw(<<>>, Some(""), Some(""), PopText, CurList(<<>>), Some("wk.svg"))
RawOdd == Raw(<<>>, Null, Null, PopNum(-5), CurList(<<Some("GBP")>>), Null)

\* response.data of the countries API: no country; a country whose data has
\* changed and one whose name differs from it in case only; two countries
\* without a name
Sources ==
  { <<>>,
    <<RawFranceNew, RawLower>>,
    <<RawNameless, RawOdd>> }

\* exchangeRateResponse.data.rates || {}: code -> rate, in tenths
\* (USD 2.0, EUR 3.0, GBP 1.0; USD 0, no EUR, GBP -1.0)
RatesUsual == [c \in Codes |-> Some(CASE c = "USD" -> 20 [] c = "EUR" -> 30 [] OTHER -> 10)]
RatesOdd == [c \in Codes |-> CASE c = "USD" -> Some(0) [] c = "EUR" -> Null [] OTHER -> Some(-10)]
RatesEmpty == [c \in Codes |-> Null]
RateMaps == {RatesUsual, RatesOdd}

\* Math.random(), in thousandths
RandomDraws == {0, 999}

\* ------------------------------------------------------------ the transformer
\* parseInt(c.population) || 0
ParseIntOrZero(p) == IF p.k = "num" THEN p.v ELSE 0

\* c.currencies && Array.isArray(c.currencies) && c.currencies.length > 0
HasCurrency(c) == c.currencies.k = "list" /\ Len(c.currencies.codes) > 0

\* Variant of CurrencyCodeOf: a record without currencies gets the base currency.
CurrencyCodeOrBase(c) == IF HasCurrency(c) THEN c.currencies.codes[1] ELSE Some("USD")

\* currencyCode = c.currencies[0].code
CurrencyCodeOf(c) == IF HasCurrency(c) THEN c.currencies.codes[1] ELSE Null

\* Variant of ExchangeRateOf: a code the rates do not have gets the rate 1.0.
ExchangeRateOrOne(code, rates) ==
  IF IsNull(code) THEN Null
  ELSE IF ~IsNull(rates[Val(code)]) /\ Val(rates[Val(code)]) # 0 THEN rates[Val(code)]
  ELSE Some(10)

\* Variant of ExchangeRateOf: without a currency code the rate of the base
\* currency is taken.
ExchangeRateOrBase(code, rates) ==
  IF IsNull(code) THEN rates["USD"]
  ELSE IF ~IsNull(rates[Val(code)]) /\ Val(rates[Val(code)]) # 0 THEN rates[Val(code)]
  ELSE Null

\* if (currencyCode && exchangeRates[currencyCode]) exchangeRate = exchangeRates[currencyCode]
ExchangeRateOf(code, rates) ==
  IF ~IsNull(code) /\ ~IsNull(rates[Val(code)]) /\ Val(rates[Val(code)]) # 0
  THEN rates[Val(code)]
  ELSE Null

\* Variant of RandomMultiplier: the base of 1000 is not added.
RandomMultiplierNoBase(u) == (u * MultiplierSpan) \div 1000

\* Math.random() * 1000 + 1000
RandomMultiplier(u) == (u * MultiplierSpan) \div 1000 + MultiplierBase

\* n / d rounded to the nearest integer, halves up (toFixed), n >= 0, d > 0
RoundDiv(n, d) == (2 * n + d) \div (2 * d)

\* Variant of EstimatedGbp: the sign of the rate is not tested.
EstimatedGbpAnyRate(population, rate, u) ==
  IF population > 0 /\ ~IsNull(rate)
  THEN IF Val(rate) > 0
       THEN RoundDiv(population * RandomMultiplier(u) * CentsPerUnit * 10, Val(rate))
       ELSE 0 - RoundDiv(population * RandomMultiplier(u) * CentsPerUnit * 10, 0 - Val(rate))
  ELSE 0

\* Variant of EstimatedGbp: the population is not tested.
EstimatedGbpAnyPopulation(population, rate, u) ==
  IF ~IsNull(rate) /\ Val(rate) > 0
  THEN (2 * population * RandomMultiplier(u) * CentsPerUnit * 10 + Val(rate))
         \div (2 * Val(rate))
  ELSE 0

\* parseFloat(((population * randomMultiplier) / exchangeRate).toFixed(2)), in hundredths
EstimatedGbp(population, rate, u) ==
  IF population > 0 /\ ~IsNull(rate) /\ Val(rate) > 0
  THEN RoundDiv(population * RandomMultiplier(u) * CentsPerUnit * 10, Val(rate))
  ELSE 0

\* countryData of one loop iteration
Transform(c, rates, u) ==
  LET population == ParseIntOrZero(c.population)
      code == CurrencyCodeOf(c)
      rate == ExchangeRateOf(code, rates)
  IN [name |-> IF c.name = <<>> THEN NameUnknown ELSE c.name,
      capital |-> OrElse(c.capital, Null),
      region |-> OrElse(c.region, Some(RegionUnknown)),
      population |-> population,
      currency_code |-> code,
      exchange_rate |-> rate,
      estimated_gbp |-> EstimatedGbp(population, rate, u),
      flag_url |-> OrElse(c.flag, Null)]

DataFields ==
  {"name", "capital", "region", "population", "currency_code", "exchange_rate",
   "estimated_gbp", "flag_url"}

\* ------------------------------------------------------------------ the store
\* A row of table countries: the columns of countryData, the generated id and
\* the @UpdateDateColumn.
Row(id, d, t) ==
  [id |-> id, name |-> d.name, capital |-> d.capital, region |-> d.region,
   population |-> d.population, currency_code |-> d.currency_code,
   exchange_rate |-> d.exchange_rate, estimated_gbp |-> d.estimated_gbp,
   flag_url |-> d.flag_url, last_refreshed_at |-> t]

DataOf(r) == [f \in DataFields |-> r[f]]

\* The collation of column name decides what WHERE name = ? compares: the
\* table is created by TypeORM (type 'mysql') with the defaults of the
\* database, which ignore letter case unless the server is set up otherwise.
Collations == {"ci", "bin"}

\* Variant of SameName: names are compared letter by letter under every collation.
SameNameExact(coll, a, b) == a = b

SameName(coll, a, b) == IF coll = "ci" THEN ToLowerCase(a) = ToLowerCase(b) ELSE a = b

\* Variant of FindOneByName: the lookup lowercases the name it looks for.
FindOneByLowerName(rows, name, coll) ==
  {r.id : r \in {x \in rows : x.name = ToLowerCase(name)}}

\* countryRepository.findOne({ where: { name } }): the ids a lookup may return
FindOneByName(rows, name, coll) ==
  {r.id : r \in {x \in rows : SameName(coll, x.name, name)}}

\* Variant of UpdateById: a row that is not there is inserted under the id.
UpdateByIdOrInsert(rows, id, d, t) ==
  IF \E r \in rows : r.id = id
  THEN {IF r.id = id THEN Row(r.id, d, t) ELSE r : r \in rows}
  ELSE rows \cup {Row(id, d, t)}

\* Variant of UpdateById: the update leaves the flag_url column out.
UpdateByIdKeepingFlag(rows, id, d, t) ==
  {IF r.id = id THEN Row(r.id, [d EXCEPT !.flag_url = r.flag_url], t) ELSE r : r \in rows}

\* Variant of UpdateById: the update leaves last_refreshed_at as it was.
UpdateByIdKeepingTime(rows, id, d, t) ==
  {IF r.id = id THEN Row(r.id, d, r.last_refreshed_at) ELSE r : r \in rows}

\* countryRepository.update(id, countryData)
UpdateById(rows, id, d, t) ==
  {IF r.id = id THEN Row(r.id, d, t) ELSE r : r \in rows}

\* Variant of InsertRow: a row whose name is already stored is not inserted.
InsertRowUnique(rows, id, d, t) ==
  IF \E r \in rows : r.name = d.name THEN rows ELSE rows \cup {Row(id, d, t)}

\* Variant of InsertRow: the table is emptied before the row is inserted.
InsertRowTruncating(rows, id, d, t) == {Row(id, d, t)}

\* countryRepository.save(countryData) of an object without id
InsertRow(rows, id, d, t) == rows \cup {Row(id, d, t)}

\* countryRepository.count()
Count(rows) == Cardinality(rows)

\* Variant of Largest: the order is ascending.
Smallest(rows) == {r \in rows : \A x \in rows : r.estimated_gbp <= x.estimated_gbp}

\* the rows with the largest estimated_gbp
Largest(rows) == {r \in rows : \A x \in rows : x.estimated_gbp <= r.estimated_gbp}

\* countryRepository.find({ order: { estimated_gbp: 'DESC' }, take: n }): every
\* result the query may give (rows of equal value come in any order)
RECURSIVE FindTop(_, _)
FindTop(rows, n) ==
  IF n = 0 \/ rows = {} THEN {<<>>}
  ELSE UNION {{<<r>> \o rest : rest \in FindTop(rows \ {r}, n - 1)} : r \in Largest(rows)}

\* ------------------------------------------------------- the summary artifact
\* Intl.NumberFormat('en-GB', { maximumFractionDigits: 0 }).format(estimated_gbp):
\* whole pounds
FormatGbp(cents) == RoundDiv(cents, CentsPerUnit)

\* createSummaryImageSVG(totalCountries, topCountries, lastRefresh)
CreateSummaryImage(totalCountries, topCountries, lastRefresh) ==
  [exists |-> TRUE,
   total |-> totalCountries,
   top |-> [i \in 1..Len(topCountries) |->
              <<topCountries[i].name, FormatGbp(topCountries[i].estimated_gbp)>>],
   at |-> lastRefresh]

\* cache/summary.png does not exist
NoImage == [exists |-> FALSE, total |-> 0, top |-> <<>>, at |-> 0]

\* ------------------------------------------------------------------- errors
\* the Error objects refreshCountriesandSave throws
ExternalAPIError(details) ==
  [name |-> "ExternalAPIError", message |-> <<"External data source unavailable">>,
   details |-> details, statusCode |-> HttpServiceUnavailable]

SaveError(cause) ==
  [name |-> "Error", message |-> <<"Failed to save countries to database: ", cause>>,
   details |-> "", statusCode |-> 0]

NoError == [name |-> "", message |-> <<>>, details |-> "", statusCode |-> 0]

\* messages of the errors the database driver raises
DbErrors == {"ER_LOCK_DEADLOCK", "ER_DATA_TOO_LONG"}

\* CountriesController.refreshCountries: the status of the HTTP answer.  The
\* handler is a @Post without @HttpCode, which the framework answers with 201
\* when it returns; an error that is no HttpException is answered with 500.
RefreshStatus(error) ==
  IF error = NoError THEN HttpCreated
  ELSE IF error.name = "ExternalAPIError" \/ error.statusCode = HttpServiceUnavailable
       THEN HttpServiceUnavailable
  ELSE HttpInternalError

\* ------------------------------------------------------------------ requests
\* @Query('name') as the framework hands it to the controller
QUndefined == [type |-> "undefined", s |-> <<>>]
QArray == [type |-> "object", s |-> <<>>]
QString(s) == [type |-> "string", s |-> s]

Queries ==
  { QUndefined, QArray, QString(<<>>), QString(<<" ">>),
    QString(<<"A", "B">>), QString(<<"b", " ">>), QString(<<"k">>),
    QString(<<"_">>), QString(<<"%">>), QString(<<"z">>) }

\* the names asked to be deleted
DeleteQueries ==
  { QUndefined, QString(<<" ">>), QString(<<"z">>), QString(<<"A", "B">>),
    QString(<<"k">>), QString(<<"_">>) }

\* !name || typeof name !== 'string' || name.trim().length === 0
InvalidName(q) == q.type # "string" \/ q.s = <<>> \/ Len(Trim(q.s)) = 0

\* `%${name.toLowerCase().trim()}%`
LikePattern(q) == <<"%">> \o Trim(ToLowerCase(q.s)) \o <<"%">>

\* createQueryBuilder('country').where('LOWER(country.name) LIKE :name', ...).getMany()
GetManyByName(rows, q) == {r \in rows : LikeMatch(LikePattern(q), ToLowerCase(r.name))}

\* ------------------------------------------------------------------ the state
\* the POST /countries/refresh requests of a behaviour: two, which follow each
\* other or overlap
Procs == {1, 2}

VARIABLES
  collation,  \* the collation of column countries.name
  store,      \* the rows of table countries
  nextId,     \* the AUTO_INCREMENT counter of countries.id
  now,        \* the wall clock
  image,      \* cache/summary.png
  refresh,    \* per refresh request: its position and its local variables
  hist,       \* per refresh request: history of what it has done so far
  del,        \* the delete request in flight
  deletes,    \* number of delete requests accepted so far
  answer,     \* the answer of the last request answered in one step
  last        \* the last refresh answered as a success: its source, the store it left

vars == <<collation, store, nextId, now, image, refresh, hist, del, deletes, answer, last>>

RefreshIdle ==
  [pc |-> "idle", countries |-> <<>>, exchangeRates |-> RatesEmpty, idx |-> 0,
   countryData |-> Null, existingCountry |-> Null, totalCountries |-> 0,
   topCountries |-> <<>>, lastRefresh |-> 0, error |-> NoError, status |-> 0]

\* What a refresh request has done so far: the store, the image and the clock
\* when it arrived, the store after its last write, the number of records it has
\* written and what its last write was, whether it has called
\* generateSummaryImage, what has failed in it (with the error the database
\* driver raised), whether another refresh was in flight while it ran, how many
\* of its updates affected no row, and the
\* calls it has made and seen answered: axios.get of the countries, axios.get
\* of the rates, the first call of countryRepository.
HistIdle ==
  [startStore |-> {}, startImage |-> NoImage, startNow |-> 0, committed |-> {},
   written |-> 0, lost |-> 0, calls |-> <<>>,
   lastWrite |-> "none", generated |-> FALSE, fetchFailed |-> FALSE,
   writeFailed |-> FALSE, genFailed |-> FALSE, cause |-> "", overlapped |-> FALSE]

DelIdle == [pc |-> "idle", query |-> QUndefined, countriesToDelete |-> {}]

\* no refresh has succeeded yet
LastNone == [some |-> FALSE, countries |-> <<>>, store |-> {}]

NoAnswer == [op |-> "none", query |-> QUndefined, status |-> 0, rows |-> {}, count |-> 0, at |-> Null, file |-> NoImage]

\* rows written by refreshes before the service was started
SeedRaw(n, pop) ==
  Raw(n, Null, Some("Asia"), PopNum(pop), CurList(<<Some("USD")>>), Null)

Seeded ==
  { Row(1, Transform(RawFrance, RatesUsual, 0), 0),
    Row(2, Transform(SeedRaw(<<"C">>, 5), RatesUsual, 0), 0),
    Row(3, Transform(SeedRaw(<<"D">>, 4), RatesUsual, 0), 0),
    Row(4, Transform(SeedRaw(<<"E">>, 3), RatesUsual, 0), 0),
    Row(5, Transform(SeedRaw(<<"F">>, 2), RatesUsual, 0), 0) }

InitialStores == {{}, Seeded}

Init ==
  /\ collation \in Collations
  /\ store \in InitialStores
  /\ nextId = Cardinality(store) + 1
  /\ now = 0
  /\ image = NoImage
  /\ refresh = [p \in Procs |-> RefreshIdle]
  /\ hist = [p \in Procs |-> HistIdle]
  /\ del = DelIdle
  /\ deletes = 0
  /\ answer = NoAnswer
  /\ last = LastNone

\* ---------------------------------------------------------------- the clock
\* The times a reading of the clock may give: time has passed since the last
\* reading or it has not (CURRENT_TIMESTAMP and new Date() have a resolution).
ClockReadings == {t \in {now, now + 1} : t <= MaxClock}

\* --------------------------------------------------------------- the refresh
\* the refresh ends: the service returns or throws, the controller answers
Finish(p, error, failed, cause) ==
  /\ refresh' = [refresh EXCEPT ![p].pc = "done", ![p].error = error,
                                ![p].status = RefreshStatus(error)]
  /\ hist' = [hist EXCEPT ![p].fetchFailed = (hist[p].fetchFailed \/ failed = "fetch"),
                          ![p].writeFailed = (failed = "write"),
                          ![p].genFailed = (failed = "summary"),
                          ![p].cause = cause]

\* the refresh requests suspended at an await of refreshCountriesandSave
Running == {q \in Procs : refresh[q].pc \notin {"idle", "done", "answered"}}

\* POST /countries/refresh arrives; refreshCountriesandSave runs up to axios.get
RefreshCountries(p) ==
  /\ answer = NoAnswer
  /\ refresh[p].pc = "idle"
  /\ \A q \in Procs : q < p => refresh[q].pc # "idle"
  /\ refresh' = [refresh EXCEPT ![p] = [RefreshIdle EXCEPT !.pc = "fetchCountries"]]
  /\ hist' = [q \in Procs |->
                IF q = p
                THEN [HistIdle EXCEPT !.calls = <<"countries">>,
                                      !.startStore = store,
                                      !.startImage = image,
                                      !.startNow = now,
                                      !.committed = store,
                                      !.overlapped = (Running \ {p} # {})]
                ELSE IF q \in Running
                THEN [hist[q] EXCEPT !.overlapped = TRUE]
                ELSE hist[q]]
  /\ answer' = NoAnswer
  /\ UNCHANGED <<collation, last, store, nextId, now, image, del, deletes>>

\* Variant of FetchCountriesFrom: a failure of the countries API is swallowed
\* and the refresh goes on without countries.
FetchCountriesSwallowing(p, sources) ==
  /\ refresh[p].pc = "fetchCountries"
  /\ \/ \E data \in sources :
          /\ refresh' = [refresh EXCEPT ![p].pc = "fetchRates", ![p].countries = data]
          /\ hist' = [hist EXCEPT ![p].calls = @ \o <<"countries ok", "rates">>]
     \/ /\ refresh' = [refresh EXCEPT ![p].pc = "fetchRates"]
        /\ hist' = [hist EXCEPT ![p].fetchFailed = TRUE,
                                ![p].calls = @ \o <<"rates">>]
  /\ answer' = NoAnswer
  /\ UNCHANGED <<collation, last, store, nextId, now, image, del, deletes>>

\* await axios.get(countriesUrl) settles; the API answers with one of sources
FetchCountriesFrom(p, sources) ==
  /\ refresh[p].pc = "fetchCountries"
  /\ \/ \E data \in sources :
          /\ refresh' = [refresh EXCEPT ![p].pc = "fetchRates", ![p].countries = data]
          /\ hist' = [hist EXCEPT ![p].calls = @ \o <<"countries ok", "rates">>]
     \/ Finish(p, ExternalAPIError("Could not fetch data from Countries API"), "fetch", "")
  /\ answer' = NoAnswer
  /\ UNCHANGED <<collation, last, store, nextId, now, image, del, deletes>>

FetchCountries(p) == FetchCountriesFrom(p, Sources)

\* Variant of LoopAt: after the last record the image file is written at once,
\* without the count and the top-5 query.
LoopAtNoQueries(data, i) == IF i <= Len(data) THEN "findOne" ELSE "toFile"

\* where the loop of line 112 goes when record i is the next to process
LoopAt(data, i) == IF i <= Len(data) THEN "findOne" ELSE "count"

\* Variant of FetchRatesFrom: a failure of the rates API is swallowed and the
\* refresh goes on with the initial value {} of exchangeRates.
FetchRatesSwallowing(p, maps) ==
  /\ refresh[p].pc = "fetchRates"
  /\ \/ \E rates \in maps :
          /\ refresh' = [refresh EXCEPT ![p].pc = LoopAt(refresh[p].countries, 1),
                                        ![p].exchangeRates = rates,
                                        ![p].idx = 1]
          /\ hist' = [hist EXCEPT ![p].generated = (refresh[p].countries = <<>>),
                                  ![p].calls = @ \o <<"rates ok", "store">>]
     \/ /\ refresh' = [refresh EXCEPT ![p].pc = LoopAt(refresh[p].countries, 1),
                                       ![p].idx = 1]
        /\ hist' = [hist EXCEPT ![p].fetchFailed = TRUE,
                                ![p].generated = (refresh[p].countries = <<>>),
                                ![p].calls = @ \o <<"store">>]
  /\ answer' = NoAnswer
  /\ UNCHANGED <<collation, last, store, nextId, now, image, del, deletes>>

\* await axios.get(exchangeRateUrl) settles; the API answers with one of maps
FetchRatesFrom(p, maps) ==
  /\ refresh[p].pc = "fetchRates"
  /\ \/ \E rates \in maps :
          /\ refresh' = [refresh EXCEPT ![p].pc = LoopAt(refresh[p].countries, 1),
                                        ![p].exchangeRates = rates,
                                        ![p].idx = 1]
          /\ hist' = [hist EXCEPT ![p].generated = (refresh[p].countries = <<>>),
                                  ![p].calls = @ \o <<"rates ok", "store">>]
     \/ Finish(p, ExternalAPIError("Could not fetch data from Exchange Rate API"), "fetch", "")
  /\ answer' = NoAnswer
  /\ UNCHANGED <<collation, last, store, nextId, now, image, del, deletes>>

FetchRates(p) == FetchRatesFrom(p, RateMaps)

\* Variant of FindOneWith: the lookups of all records are made on the store as
\* it was when the refresh began (the records are processed as a batch).
FindOneWithSnapshot(p, draws) ==
  /\ refresh[p].pc = "findOne"
  /\ \/ \E u \in draws :
          LET d == Transform(refresh[p].countries[refresh[p].idx],
                             refresh[p].exchangeRates, u)
              found == FindOneByName(hist[p].startStore, d.name, collation)
          IN /\ \E e \in IF found = {} THEN {Null} ELSE {Some(id) : id \in found} :
                   refresh' = [refresh EXCEPT ![p].pc = "write",
                                              ![p].countryData = Some(d),
                                              ![p].existingCountry = e]
             /\ UNCHANGED hist
     \/ \E e \in DbErrors : Finish(p, SaveError(e), "write", e)
  /\ answer' = NoAnswer
  /\ UNCHANGED <<collation, last, store, nextId, now, image, del, deletes>>

\* one loop iteration up to the lookup: the record is transformed, then
\* await countryRepository.findOne({ where: { name: countryName } }) settles
FindOneWith(p, draws) ==
  /\ refresh[p].pc = "findOne"
  /\ \/ \E u \in draws :
          LET d == Transform(refresh[p].countries[refresh[p].idx],
                             refresh[p].exchangeRates, u)
              found == FindOneByName(store, d.name, collation)
          IN /\ \E e \in IF found = {} THEN {Null} ELSE {Some(id) : id \in found} :
                   refresh' = [refresh EXCEPT ![p].pc = "write",
                                              ![p].countryData = Some(d),
                                              ![p].existingCountry = e]
             /\ UNCHANGED hist
     \/ \E e \in DbErrors : Finish(p, SaveError(e), "write", e)
  /\ answer' = NoAnswer
  /\ UNCHANGED <<collation, last, store, nextId, now, image, del, deletes>>

FindOne(p) == FindOneWith(p, RandomDraws)

\* Variant of Write: the loop runs in a transaction, a failed write rolls the
\* earlier writes of the refresh back.
WriteInTransaction(p) ==
  /\ refresh[p].pc = "write"
  /\ \/ \E t \in ClockReadings :
          LET d == Val(refresh[p].countryData)
              e == refresh[p].existingCountry
              next == LoopAt(refresh[p].countries, refresh[p].idx + 1)
          IN /\ IF ~IsNull(e)
                THEN /\ store' = UpdateById(store, Val(e), d, t)
                     /\ UNCHANGED nextId
                ELSE /\ store' = InsertRow(store, nextId, d, t)
                     /\ nextId' = nextId + 1
             /\ now' = t
             /\ refresh' = [refresh EXCEPT ![p].pc = next,
                                           ![p].idx = refresh[p].idx + 1]
             /\ hist' = [hist EXCEPT ![p].committed = store',
                                     ![p].written = hist[p].written + 1,
                                     ![p].lost = IF ~IsNull(e) /\ (\A r \in store : r.id # Val(e))
                                                 THEN hist[p].lost + 1
                                                 ELSE hist[p].lost,
                                     ![p].lastWrite = IF IsNull(e) THEN "insert" ELSE "update",
                                     ![p].generated = (next = "count")]
     \/ /\ \E e \in DbErrors : Finish(p, SaveError(e), "write", e)
        /\ store' = hist[p].startStore
        /\ UNCHANGED <<nextId, now>>
  /\ answer' = NoAnswer
  /\ UNCHANGED <<collation, last, image, del, deletes>>

\* await countryRepository.update(existingCountry.id, countryData) or
\* await countryRepository.save(countryData) settles
Write(p) ==
  /\ refresh[p].pc = "write"
  /\ \/ \E t \in ClockReadings :
          LET d == Val(refresh[p].countryData)
              e == refresh[p].existingCountry
              next == LoopAt(refresh[p].countries, refresh[p].idx + 1)
          IN /\ IF ~IsNull(e)
                THEN /\ store' = UpdateById(store, Val(e), d, t)
                     /\ UNCHANGED nextId
                ELSE /\ store' = InsertRow(store, nextId, d, t)
                     /\ nextId' = nextId + 1
             /\ now' = t
             /\ refresh' = [refresh EXCEPT ![p].pc = next,
                                           ![p].idx = refresh[p].idx + 1]
             /\ hist' = [hist EXCEPT ![p].committed = store',
                                     ![p].written = hist[p].written + 1,
                                     ![p].lost = IF ~IsNull(e) /\ (\A r \in store : r.id # Val(e))
                                                 THEN hist[p].lost + 1
                                                 ELSE hist[p].lost,
                                     ![p].lastWrite = IF IsNull(e) THEN "insert" ELSE "update",
                                     ![p].generated = (next = "count")]
     \/ /\ \E e \in DbErrors : Finish(p, SaveError(e), "write", e)
        /\ UNCHANGED <<store, nextId, now>>
  /\ answer' = NoAnswer
  /\ UNCHANGED <<collation, last, image, del, deletes>>

\* Variant of SummaryCount: generateSummaryImage has no catch, its error reaches
\* the catch of refreshCountriesandSave.
SummaryCountThrowing(p) ==
  /\ refresh[p].pc = "count"
  /\ \/ /\ refresh' = [refresh EXCEPT ![p].pc = "findTop",
                                        ![p].totalCountries = Count(store)]
        /\ UNCHANGED hist
     \/ \E e \in DbErrors : Finish(p, SaveError(e), "summary", e)
  /\ answer' = NoAnswer
  /\ UNCHANGED <<collation, last, store, nextId, now, image, del, deletes>>

\* generateSummaryImage: await countryRepository.count() settles
SummaryCount(p) ==
  /\ refresh[p].pc = "count"
  /\ \/ /\ refresh' = [refresh EXCEPT ![p].pc = "findTop",
                                        ![p].totalCountries = Count(store)]
        /\ UNCHANGED hist
     \/ Finish(p, NoError, "summary", "")
  /\ answer' = NoAnswer
  /\ UNCHANGED <<collation, last, store, nextId, now, image, del, deletes>>

\* generateSummaryImage: await countryRepository.find(top 5) settles; the
\* timestamp is taken and the SVG is built
SummaryFindTop(p) ==
  /\ refresh[p].pc = "findTop"
  /\ \/ /\ \E top \in FindTop(store, TopN), t \in ClockReadings :
             /\ refresh' = [refresh EXCEPT ![p].pc = "toFile",
                                           ![p].topCountries = top,
                                           ![p].lastRefresh = t]
             /\ now' = t
        /\ UNCHANGED hist
     \/ /\ Finish(p, NoError, "summary", "")
        /\ UNCHANGED now
  /\ answer' = NoAnswer
  /\ UNCHANGED <<collation, last, store, nextId, image, del, deletes>>

\* Variant of SummaryToFile: the catch block unlinks the cached file.
SummaryToFileRemoving(p) ==
  /\ refresh[p].pc = "toFile"
  /\ \/ /\ image' = CreateSummaryImage(refresh[p].totalCountries,
                                         refresh[p].topCountries,
                                         refresh[p].lastRefresh)
        /\ Finish(p, NoError, "none", "")
     \/ /\ Finish(p, NoError, "summary", "")
        /\ image' = NoImage
  /\ answer' = NoAnswer
  /\ UNCHANGED <<collation, last, store, nextId, now, del, deletes>>

\* generateSummaryImage: await fs.ensureDir, await sharp(...).png().toFile settle
SummaryToFile(p) ==
  /\ refresh[p].pc = "toFile"
  /\ \/ /\ image' = CreateSummaryImage(refresh[p].totalCountries,
                                         refresh[p].topCountries,
                                         refresh[p].lastRefresh)
        /\ Finish(p, NoError, "none", "")
     \/ /\ Finish(p, NoError, "summary", "")
        /\ UNCHANGED image
  /\ answer' = NoAnswer
  /\ UNCHANGED <<collation, last, store, nextId, now, del, deletes>>

\* the HTTP answer has been sent; the request is over
RefreshAnswered(p) ==
  /\ refresh[p].pc = "done"
  /\ refresh' = [refresh EXCEPT ![p] = [RefreshIdle EXCEPT !.pc = "answered"]]
  /\ hist' = [hist EXCEPT ![p] = HistIdle]
  /\ last' = IF refresh[p].error = NoError
             THEN [some |-> TRUE, countries |-> refresh[p].countries, store |-> store]
             ELSE last
  /\ answer' = NoAnswer
  /\ UNCHANGED <<collation, store, nextId, now, image, del, deletes>>

\* ------------------------------------------------------------------- search
\* GET /countries/search?name=q: findCountriesByName and the controller's mapping
FindCountriesByName(q) ==
  /\ answer = NoAnswer
  /\ answer' =
       IF InvalidName(q)
       THEN [op |-> "search", query |-> q, status |-> HttpBadRequest, rows |-> {}, count |-> 0, at |-> Null, file |-> NoImage]
       ELSE IF GetManyByName(store, q) = {}
       THEN [op |-> "search", query |-> q, status |-> HttpNotFound, rows |-> {}, count |-> 0, at |-> Null, file |-> NoImage]
       ELSE [op |-> "search", query |-> q, status |-> HttpOk,
             rows |-> GetManyByName(store, q), count |-> 0, at |-> Null, file |-> NoImage]
  /\ UNCHANGED <<collation, last, store, nextId, now, image, refresh, hist, del, deletes>>

\* ------------------------------------------------------------------- delete
\* Variant of DeleteCountriesByName: the name is validated after the rows it
\* selects have been removed.
DeleteCountriesByNameThenValidate(q) ==
  /\ answer = NoAnswer
  /\ del.pc = "idle"
  /\ deletes < MaxDeletes
  /\ deletes' = deletes + 1
  /\ IF InvalidName(q)
     THEN /\ answer' = [op |-> "delete", query |-> q, status |-> HttpBadRequest,
                        rows |-> {}, count |-> 0, at |-> Null, file |-> NoImage]
          /\ store' = IF q.type = "string" THEN store \ GetManyByName(store, q) ELSE store
          /\ UNCHANGED del
     ELSE IF GetManyByName(store, q) = {}
     THEN /\ answer' = [op |-> "delete", query |-> q, status |-> HttpNotFound,
                        rows |-> {}, count |-> 0, at |-> Null, file |-> NoImage]
          /\ UNCHANGED <<store, del>>
     ELSE /\ del' = [pc |-> "remove", query |-> q,
                     countriesToDelete |-> GetManyByName(store, q)]
          /\ answer' = NoAnswer
          /\ UNCHANGED store
  /\ UNCHANGED <<collation, last, nextId, now, image, refresh, hist>>

\* DELETE /countries/delete?name=q arrives: validation, then getMany settles
DeleteCountriesByName(q) ==
  /\ answer = NoAnswer
  /\ del.pc = "idle"
  /\ deletes < MaxDeletes
  /\ deletes' = deletes + 1
  /\ IF InvalidName(q)
     THEN /\ answer' = [op |-> "delete", query |-> q, status |-> HttpBadRequest,
                        rows |-> {}, count |-> 0, at |-> Null, file |-> NoImage]
          /\ UNCHANGED del
     ELSE IF GetManyByName(store, q) = {}
     THEN /\ answer' = [op |-> "delete", query |-> q, status |-> HttpNotFound,
                        rows |-> {}, count |-> 0, at |-> Null, file |-> NoImage]
          /\ UNCHANGED del
     ELSE /\ del' = [pc |-> "remove", query |-> q,
                     countriesToDelete |-> GetManyByName(store, q)]
          /\ answer' = NoAnswer
  /\ UNCHANGED <<collation, last, store, nextId, now, image, refresh, hist>>

\* await countryRepository.remove(countriesToDelete) settles
DeleteRemove ==
  /\ del.pc = "remove"
  /\ store' = {r \in store : r.id \notin {x.id : x \in del.countriesToDelete}}
  /\ answer' = [op |-> "delete", query |-> del.query, status |-> HttpOk,
                rows |-> {}, count |-> Cardinality(del.countriesToDelete), at |-> Null, file |-> NoImage]
  /\ del' = DelIdle
  /\ UNCHANGED <<collation, last, nextId, now, image, refresh, hist, deletes>>

\* --------------------------------------------------------------------- list
\* GET /countries: countryRepository.find()
FindAllCountries ==
  /\ answer = NoAnswer
  /\ answer' = [op |-> "list", query |-> QUndefined, status |-> HttpOk,
                rows |-> store, count |-> 0, at |-> Null, file |-> NoImage]
  /\ UNCHANGED <<collation, last, store, nextId, now, image, refresh, hist, del, deletes>>

\* ------------------------------------------------------------------- status
\* Variant of FindLatest: the order is ascending.
FindOldest(rows) ==
  {r \in rows : \A x \in rows : r.last_refreshed_at <= x.last_refreshed_at}

\* find({order: {last_refreshed_at: 'DESC'}, take: 1}): the rows that may come first
FindLatest(rows) ==
  {r \in rows : \A x \in rows : x.last_refreshed_at <= r.last_refreshed_at}

\* GET /countries/status: the number of rows and the latest last_refreshed_at
GetCountriesStatus ==
  /\ answer = NoAnswer
  /\ \E lastRefreshedCountry \in
          IF store = {} THEN {<<>>} ELSE {<<r>> : r \in FindLatest(store)} :
       answer' = [op |-> "status", query |-> QUndefined, status |-> HttpOk,
                  rows |-> {}, count |-> Count(store),
                  at |-> IF Len(lastRefreshedCountry) > 0
                         THEN Some(lastRefreshedCountry[1].last_refreshed_at)
                         ELSE Null,
                  file |-> NoImage]
  /\ UNCHANGED <<collation, last, store, nextId, now, image, refresh, hist, del, deletes>>

\* -------------------------------------------------------------------- image
\* Variant of GetCountryImage: the existence of the file is not tested.
GetCountryImageUntested ==
  /\ answer = NoAnswer
  /\ answer' = [op |-> "image", query |-> QUndefined, status |-> HttpOk,
                rows |-> {}, count |-> 0, at |-> Null, file |-> image]
  /\ UNCHANGED <<collation, last, store, nextId, now, image, refresh, hist, del, deletes>>

\* GET /countries/image: cache/summary.png is streamed when fs.pathExists finds
\* it, else the answer is not found
GetCountryImage ==
  /\ answer = NoAnswer
  /\ answer' = IF image.exists
               THEN [op |-> "image", query |-> QUndefined, status |-> HttpOk,
                     rows |-> {}, count |-> 0, at |-> Null, file |-> image]
               ELSE [op |-> "image", query |-> QUndefined, status |-> HttpNotFound,
                     rows |-> {}, count |-> 0, at |-> Null, file |-> NoImage]
  /\ UNCHANGED <<collation, last, store, nextId, now, image, refresh, hist, del, deletes>>

\* the answer of a request answered in one step has been sent
AnswerSent ==
  /\ answer # NoAnswer
  /\ answer' = NoAnswer
  /\ UNCHANGED <<collation, last, store, nextId, now, image, refresh, hist, del, deletes>>

\* ------------------------------------------------------- the specifications
\* no request is in flight
Idle ==
  /\ \A p \in Procs : refresh[p].pc \in {"idle", "answered"}
  /\ del.pc = "idle"

\* Requests arrive one at a time: each is answered before the next arrives.
Next ==
  \/ \E p \in Procs : Idle /\ RefreshCountries(p)
  \/ \E q \in Queries : Idle /\ FindCountriesByName(q)
  \/ \E q \in DeleteQueries : Idle /\ DeleteCountriesByName(q)
  \/ Idle /\ FindAllCountries
  \/ Idle /\ GetCountriesStatus
  \/ Idle /\ GetCountryImage
  \/ \E p \in Procs : FetchCountries(p)
  \/ \E p \in Procs : FetchRates(p)
  \/ \E p \in Procs : FindOne(p)
  \/ \E p \in Procs : Write(p)
  \/ \E p \in Procs : SummaryCount(p)
  \/ \E p \in Procs : SummaryFindTop(p)
  \/ \E p \in Procs : SummaryToFile(p)
  \/ \E p \in Procs : RefreshAnswered(p)
  \/ DeleteRemove
  \/ AnswerSent

Spec == Init /\ [][Next]_vars

\* Requests overlap: a handler suspended at an await lets the other requests
\* run.  The external APIs answer with one data set, the store starts empty.
OverlapSources == {<<RawFranceNew, RawLower>>}
OverlapRates == {RatesUsual}
OverlapQueries == {QString(<<"A", "B">>)}
OverlapDraws == {0}

OverlapInit == Init /\ store = {}

OverlapNext ==
  \/ \E p \in Procs : RefreshCountries(p)
  \/ \E p \in Procs : FetchCountriesFrom(p, OverlapSources)
  \/ \E p \in Procs : FetchRatesFrom(p, OverlapRates)
  \/ \E p \in Procs : FindOneWith(p, OverlapDraws)
  \/ \E p \in Procs : Write(p)
  \/ \E p \in Procs : SummaryCount(p)
  \/ \E p \in Procs : SummaryFindTop(p)
  \/ \E p \in Procs : SummaryToFile(p)
  \/ \E p \in Procs : RefreshAnswered(p)
  \/ \E q \in OverlapQueries : DeleteCountriesByName(q)
  \/ DeleteRemove
  \/ AnswerSent

OverlapSpec == OverlapInit /\ [][OverlapNext]_vars

\* One refresh on an empty store: the countries API answers with a single
\* record, of any of the populations and currency lists below, or with two
\* records of which the first has a currency the rates may not have.
RecordRaw(pop, cur) == Raw(<<"T">>, Null, Null, pop, cur, Null)

RecordPops ==
  {PopNum(100), PopNum(7), PopNum(1), PopNum(0), PopNum(-5), PopNone, PopText}

RecordCurs ==
  { CurNone, CurList(<<>>), CurList(<<Null>>), CurList(<<Some("USD")>>),
    CurList(<<Some("EUR"), Some("USD")>>), CurList(<<Some("GBP")>>) }

RecordPair ==
  << RecordRaw(PopNum(7), CurList(<<Some("EUR"), Some("USD")>>)),
     Raw(<<"V">>, Null, Null, PopNum(100), CurList(<<Some("USD")>>), Null) >>

RecordSources ==
  {<<RecordRaw(pop, cur)>> : pop \in RecordPops, cur \in RecordCurs} \cup {RecordPair}
RecordRates == {RatesUsual, RatesOdd, RatesEmpty}
RecordDraws == {0, 500, 999}

RecordInit == Init /\ store = {}

RecordNext ==
  \/ RefreshCountries(1)
  \/ FetchCountriesFrom(1, RecordSources)
  \/ FetchRatesFrom(1, RecordRates)
  \/ FindOneWith(1, RecordDraws)
  \/ Write(1)
  \/ SummaryCount(1)
  \/ SummaryFindTop(1)
  \/ SummaryToFile(1)
  \/ RefreshAnswered(1)

RecordSpec == RecordInit /\ [][RecordNext]_vars

\* ================================================================ properties
\* the refresh requests whose service call has returned or thrown
Done == {p \in Procs : refresh[p].pc = "done"}

\* at most one row per name
NoDuplicateNames(rows) == \A r1, r2 \in rows : r1.name = r2.name => r1.id = r2.id

\* the ids of rows
Ids(rows) == {r.id : r \in rows}

\* ------------------------------------------------------------------------ C1
\* C1: when the fetch of the countries or of the rates fails, the refresh ends
\* with an external-fetch error, the store is exactly as it was when the
\* refresh began, the refresh has inserted and updated nothing, and the
\* summary image has not been regenerated.
C1_FetchFailureLeavesStore ==
  \A p \in Done :
    hist[p].fetchFailed =>
      /\ refresh[p].error.name = "ExternalAPIError"
      /\ store = hist[p].startStore
      /\ hist[p].written = 0
      /\ ~hist[p].generated
      /\ image = hist[p].startImage

\* the rates API failed after the countries API had answered with records, on a
\* store that has rows and an image
C1_Witness ==
  \E p \in Done :
    /\ hist[p].fetchFailed
    /\ refresh[p].countries # <<>>
    /\ store # {}
    /\ image.exists

\* ------------------------------------------------------------------------ C2
\* what a write of the refresh loop does when `same` are the stored rows the
\* record is taken to be already stored as: with such a row, that row's data
\* fields are replaced by the record's, its id is kept and the number of rows
\* and the other rows are left alone; without, exactly one row is added, which
\* holds the record's data
UpsertOn(same, d) ==
  IF same # {}
  THEN /\ Cardinality(store') = Cardinality(store)
       /\ Ids(store') = Ids(store)
       /\ \E r \in same, r2 \in store' :
             /\ r2.id = r.id
             /\ DataOf(r2) = d
             /\ store' \ {r2} = store \ {r}
  ELSE /\ Cardinality(store') = Cardinality(store) + 1
       /\ \E r2 \in store' :
             /\ r2.id \notin Ids(store)
             /\ DataOf(r2) = d
             /\ store' \ {r2} = store

\* a refresh writes the record it has looked up
WritesRecord(p) ==
  refresh[p].pc = "write" /\ hist'[p].written = hist[p].written + 1

\* C2 as stated: a write of the refresh loop replaces the data fields of the
\* stored row that has exactly the record's name, keeping its id and the
\* number of rows; when no stored row has exactly that name it inserts exactly
\* one new row.
C2_UpsertByExactName ==
  [][\A p \in Procs :
       WritesRecord(p) =>
         LET d == Val(refresh[p].countryData)
         IN UpsertOn({r \in store : r.name = d.name}, d)]_vars

\* C2, amended: a write of the refresh loop replaces the data fields (the name
\* among them) of the stored row whose name equals the record's name under the
\* collation of the name column, keeping its id and the number of rows; when
\* no stored row has such a name it inserts exactly one new row.
C2_UpsertByCollation ==
  [][\A p \in Procs :
       WritesRecord(p) =>
         LET d == Val(refresh[p].countryData)
         IN UpsertOn({r \in store : SameName(collation, r.name, d.name)}, d)]_vars

\* under a collation that ignores case, a refresh has updated the stored row
\* of its first record and then, for a second record whose name differs in
\* case only, updated that row again: the row now has the second name and no
\* row was added
C2_Witness ==
  \E p \in Procs :
    /\ collation = "ci"
    /\ hist[p].written = 2
    /\ hist[p].lastWrite = "update"
    /\ hist[p].startStore # {}
    /\ Cardinality(store) = Cardinality(hist[p].startStore)
    /\ Ids(store) = Ids(hist[p].startStore)
    /\ \E r \in store : r.name = NameLowerAb
    /\ \A r \in hist[p].startStore : r.name # NameLowerAb

\* ------------------------------------------------------------------------ C3
\* C3 as stated: after any refresh completes, no two stored rows have the same
\* name.
C3_NoDuplicateNames == Done # {} => NoDuplicateNames(store)

\* C3, amended: after a refresh completes that began on a store without
\* duplicate names and ran while no other refresh was in flight, no two stored
\* rows have the same name.
C3_NoDuplicateNamesAlone ==
  \A p \in Done :
    (~hist[p].overlapped /\ NoDuplicateNames(hist[p].startStore)) =>
      NoDuplicateNames(store)

\* a refresh that ran alone has written its two records on a store that had rows
C3_Witness ==
  \E p \in Done :
    /\ ~hist[p].overlapped
    /\ hist[p].written = 2
    /\ hist[p].startStore # {}
    /\ refresh[p].error = NoError

\* ------------------------------------------------------------------------ C4
\* C4: when the lookup or the write of the k-th record fails, the refresh ends
\* with an error whose message wraps the cause, the rows written for records
\* 1..k-1 are in the store, no later record has been processed, and the
\* summary generator has not been called.
C4_WriteFailureKeepsEarlierWrites ==
  \A p \in Done :
    hist[p].writeFailed =>
      /\ hist[p].cause \in DbErrors
      /\ refresh[p].error.name = "Error"
      /\ refresh[p].error.message =
           <<"Failed to save countries to database: ", hist[p].cause>>
      /\ refresh[p].idx \in 1..Len(refresh[p].countries)
      /\ hist[p].written = refresh[p].idx - 1
      /\ store = hist[p].committed
      /\ \A i \in 1..(refresh[p].idx - 1) :
            \E r \in store :
              SameName(collation, r.name,
                       Transform(refresh[p].countries[i], refresh[p].exchangeRates, 0).name)
      /\ ~hist[p].generated
      /\ image = hist[p].startImage

\* the second record's write failed after the first record's row was written
C4_Witness ==
  \E p \in Done :
    /\ hist[p].writeFailed
    /\ hist[p].written = 1
    /\ refresh[p].idx = 2
    /\ store # hist[p].startStore

\* ------------------------------------------------------------------------ C5
\* C5 as stated: POST /countries/refresh is answered with 200 when the refresh
\* succeeds and with 503 when a fetch fails; a failed write is never answered
\* with 503.
C5_RefreshStatus ==
  \A p \in Done :
    /\ refresh[p].error = NoError => refresh[p].status = HttpOk
    /\ hist[p].fetchFailed => refresh[p].status = HttpServiceUnavailable
    /\ hist[p].writeFailed => refresh[p].status # HttpServiceUnavailable

\* ------------------------------------------------------------------------ C6
\* C6: when every record has been written and the summary generation fails, the
\* refresh is still answered as a success and the rows it wrote are all in
\* the store.
C6_SummaryFailureKeepsSuccess ==
  \A p \in Done :
    hist[p].genFailed =>
      /\ refresh[p].error = NoError
      /\ refresh[p].status \in 200..299
      /\ hist[p].written = Len(refresh[p].countries)
      /\ store = hist[p].committed
      /\ \A i \in 1..Len(refresh[p].countries) :
            \E r \in store :
              SameName(collation, r.name,
                       Transform(refresh[p].countries[i], refresh[p].exchangeRates, 0).name)

\* the summary generation failed after the refresh had written its two records
C6_Witness ==
  \E p \in Done :
    /\ hist[p].genFailed
    /\ hist[p].written = 2
    /\ store # hist[p].startStore

IsTopByValue(top, rows, n) ==
  /\ Len(top) = (IF Cardinality(rows) < n THEN Cardinality(rows) ELSE n)
  /\ \A i \in 1..Len(top) : top[i] \in rows
  /\ \A i, j \in 1..Len(top) : i < j =>
        (top[i] # top[j] /\ top[i].estimated_gbp >= top[j].estimated_gbp)
  /\ \A r \in rows \ {top[i] : i \in 1..Len(top)} :
        \A i \in 1..Len(top) : r.estimated_gbp <= top[i].estimated_gbp

\* the cached image shows the number of rows and the names of top, in order
ImageShows(rows, top) ==
  /\ image.exists
  /\ image.total = Cardinality(rows)
  /\ Len(image.top) = Len(top)
  /\ \A i \in 1..Len(top) : image.top[i][1] = top[i].name

NameContains(rows, s) == {r \in rows : Contains(ToLowerCase(r.name), ToLowerCase(s))}

\* the query is a string and not empty
GivenName(q) == q.type = "string" /\ q.s # <<>>

\* C9 as stated: a search returns exactly the rows whose name contains the
\* query as a substring, letter case ignored.
C9_SearchIsSubstringMatch ==
  (answer.op = "search" /\ GivenName(answer.query)) =>
    answer.rows = NameContains(store, answer.query.s)

\* ----------------------------------------------------------------------- C10
\* C10 as stated: a search is answered with 400 when the query is missing,
\* empty or not a string, and with 404 when the query is valid and no stored
\* name contains it; in both cases no row is returned.
C10_SearchErrors ==
  answer.op = "search" =>
    /\ ~GivenName(answer.query) =>
         (answer.status = HttpBadRequest /\ answer.rows = {})
    /\ (GivenName(answer.query) /\ NameContains(store, answer.query.s) = {}) =>
         (answer.status = HttpNotFound /\ answer.rows = {})

\* ----------------------------------------------------------------------- C11
\* a delete request is answered with a validation or a not-found error
DeleteRefused ==
  /\ answer = NoAnswer
  /\ answer'.op = "delete"
  /\ answer'.status \in {HttpBadRequest, HttpNotFound}

DeleteAnswered ==
  /\ del.pc = "remove"
  /\ answer'.op = "delete"
  /\ answer'.status = HttpOk

\* C12 as stated: a successful delete removes every stored row whose name
\* contains the query, letter case ignored, and no other row; the count it
\* returns is the number of rows removed.
C12_DeleteIsSubstringMatch ==
  [][DeleteAnswered =>
       /\ store' = store \ NameContains(store, answer'.query.s)
       /\ answer'.count = Cardinality(store \ store')]_vars

\* ----------------------------------------------------------------------- C13
\* refresh p has succeeded on the source of the last successful refresh, and
\* began on the store that refresh left
SecondRun(p) ==
  /\ refresh[p].error = NoError
  /\ last.some
  /\ last.countries = refresh[p].countries
  /\ last.store = hist[p].startStore

\* a record of the source of refresh p has the name of row r
NamedBySource(p, r) ==
  \E i \in 1..Len(refresh[p].countries) :
    SameName(collation, r.name,
             Transform(refresh[p].countries[i], refresh[p].exchangeRates, 0).name)

\* C13 as stated: after the second of two refreshes in sequence on an unchanged
\* source the store has as many rows as after the first, and every row's
\* last_refreshed_at is strictly newer than after the first.
C13_SecondRunStrictlyNewer ==
  \A p \in Done :
    SecondRun(p) =>
      /\ Cardinality(store) = Cardinality(hist[p].startStore)
      /\ \A r \in store :
            \E r0 \in hist[p].startStore :
              r0.id = r.id /\ r.last_refreshed_at > r0.last_refreshed_at

\* C13, amended: after the second of two refreshes in sequence on an unchanged
\* source the store has as many rows as after the first; a row that the source
\* names has a last_refreshed_at read from the clock during the second run,
\* which is not older than after the first; a row the source does not name is
\* as it was.
C13_SecondRunNotOlder ==
  \A p \in Done :
    SecondRun(p) =>
      /\ Cardinality(store) = Cardinality(hist[p].startStore)
      /\ \A r \in store :
            \E r0 \in hist[p].startStore :
              /\ r0.id = r.id
              /\ IF NamedBySource(p, r)
                 THEN /\ r.last_refreshed_at >= r0.last_refreshed_at
                      /\ r.last_refreshed_at >= hist[p].startNow
                 ELSE r = r0

\* a second run on a source of two records has given a row a newer timestamp,
\* on a store that also holds rows the source does not name
C13_Witness ==
  \E p \in Done :
    /\ SecondRun(p)
    /\ Len(refresh[p].countries) = 2
    /\ \E r \in store, r0 \in hist[p].startStore :
          r0.id = r.id /\ r.last_refreshed_at > r0.last_refreshed_at
    /\ \E r \in store : ~NamedBySource(p, r)

\* ----------------------------------------------------------------------- C14
\* C14: in every reachable state every stored row has an estimated_gbp that is
\* not negative, whatever population and rates the sources returned.
C14_EstimateNotNegative == \A r \in store : r.estimated_gbp >= 0

\* a row written from a negative population and a resolved exchange rate
C14_Witness ==
  \E r \in store :
    /\ r.population < 0
    /\ ~IsNull(r.exchange_rate)
    /\ r.estimated_gbp = 0

\* ----------------------------------------------------------------------- C15
\* C15: in every reachable state no stored row has an exchange_rate while its
\* currency_code is absent.
C15_NoRateWithoutCode ==
  \A r \in store : ~IsNull(r.exchange_rate) => ~IsNull(r.currency_code)

\* a refresh has written a row for a record without currencies while the rates
\* API had a rate for every currency
C15_Witness ==
  \E p \in Procs :
    /\ hist[p].written > 0
    /\ refresh[p].exchangeRates = RatesUsual
    /\ \E r \in store : IsNull(r.currency_code) /\ IsNull(r.exchange_rate)

\* ----------------------------------------------------------------------- C19
\* C19 as stated: in every reachable state every stored row has a population
\* that is not negative.
C19_PopulationNotNegative == \A r \in store : r.population >= 0

\* ----------------------------------------------------------------------- C16
\* the source record refresh p is processing
Current(p) == refresh[p].countries[refresh[p].idx]

\* the record has no currency list or an empty one
NoCurrencies(c) == c.currencies.k = "none" \/ c.currencies.codes = <<>>

\* C16: the row a refresh writes for a source record whose currency list is
\* empty or missing has no currency_code, no exchange_rate and estimated_gbp
\* 0, whatever the population and the rates are; it is what the record gives
\* with an empty rate map, so the rates play no part in it.
C16_NoCurrencyNoRate ==
  [][\A p \in Procs :
       (WritesRecord(p) /\ NoCurrencies(Current(p))) =>
         \E r \in store' :
           /\ DataOf(r) = Val(refresh[p].countryData)
           /\ IsNull(r.currency_code)
           /\ IsNull(r.exchange_rate)
           /\ r.estimated_gbp = 0
           /\ \A u \in RecordDraws : DataOf(r) = Transform(Current(p), RatesEmpty, u)]_vars

\* a row has been written for a record without currencies and with a positive
\* population, while the rates API had a rate for every currency
C16_Witness ==
  \E p \in Procs :
    /\ hist[p].written = 1
    /\ NoCurrencies(refresh[p].countries[1])
    /\ refresh[p].countries[1].population = PopNum(7)
    /\ refresh[p].exchangeRates = RatesUsual
    /\ \E r \in store : r.population = 7 /\ r.estimated_gbp = 0

\* ----------------------------------------------------------------------- C17
\* the population of the record, as a number
PopulationOf(c) == IF c.population.k = "num" THEN c.population.v ELSE 0

\* the rates have a positive rate for the record's first currency code
HasPositiveRate(c, rates) ==
  /\ ~NoCurrencies(c)
  /\ ~IsNull(c.currencies.codes[1])
  /\ ~IsNull(rates[Val(c.currencies.codes[1])])
  /\ Val(rates[Val(c.currencies.codes[1])]) > 0

\* refresh p has transformed its current record
Transformed(p) == refresh[p].pc = "write"

\* C17: the transformer gives an estimated_gbp other than 0 only to a record
\* with population > 0 and a positive exchange rate; a record with population
\* 0 gets 0 whatever the rate.
C17_EstimateZeroUnless ==
  \A p \in Procs :
    Transformed(p) =>
      LET d == Val(refresh[p].countryData)
      IN /\ d.estimated_gbp # 0 =>
              (PopulationOf(Current(p)) > 0
                 /\ HasPositiveRate(Current(p), refresh[p].exchangeRates))
         /\ PopulationOf(Current(p)) = 0 => d.estimated_gbp = 0

\* a record with population 0 and a positive rate has been transformed
C17_Witness ==
  \E p \in Procs :
    /\ Transformed(p)
    /\ Current(p).population = PopNum(0)
    /\ HasPositiveRate(Current(p), refresh[p].exchangeRates)
    /\ Val(refresh[p].countryData).estimated_gbp = 0

\* ----------------------------------------------------------------------- C18
\* the rate of the record's first currency, in tenths
RateOf(c, rates) == Val(rates[Val(c.currencies.codes[1])])

\* C18 as stated: for a record with population > 0 and a positive rate the
\* estimated_gbp, rounded to hundredths, lies in
\* [population * 1000 / rate, population * 2000 / rate].
C18_EstimateInRange ==
  \A p \in Procs :
    (/\ Transformed(p)
     /\ PopulationOf(Current(p)) > 0
     /\ HasPositiveRate(Current(p), refresh[p].exchangeRates)) =>
      LET est == Val(refresh[p].countryData).estimated_gbp
          rate == RateOf(Current(p), refresh[p].exchangeRates)
          pop == PopulationOf(Current(p))
      IN /\ est * rate >= pop * MultiplierBase * 10 * CentsPerUnit
         /\ est * rate <= pop * (MultiplierBase + MultiplierSpan) * 10 * CentsPerUnit

\* C18, amended: for a record with population > 0 and a positive rate the
\* estimated_gbp, rounded to hundredths, lies within half a hundredth of
\* [population * 1000 / rate, population * 2000 / rate].
C18_EstimateInRangeRounded ==
  \A p \in Procs :
    (/\ Transformed(p)
     /\ PopulationOf(Current(p)) > 0
     /\ HasPositiveRate(Current(p), refresh[p].exchangeRates)) =>
      LET est == Val(refresh[p].countryData).estimated_gbp
          rate == RateOf(Current(p), refresh[p].exchangeRates)
          pop == PopulationOf(Current(p))
      IN /\ 2 * est * rate >= 2 * pop * MultiplierBase * 10 * CentsPerUnit - rate
         /\ 2 * est * rate <= 2 * pop * (MultiplierBase + MultiplierSpan) * 10 * CentsPerUnit + rate

\* population 100 at rate 2.0 has been transformed with the largest draw
C18_Witness ==
  \E p \in Procs :
    /\ Transformed(p)
    /\ Current(p).population = PopNum(100)
    /\ HasPositiveRate(Current(p), refresh[p].exchangeRates)
    /\ RateOf(Current(p), refresh[p].exchangeRates) = 20
    /\ Val(refresh[p].countryData).estimated_gbp = 9995000

\* ----------------------------------------------------------------------- C20
\* a delete removes the rows it has found
DeleteRemoves == del.pc = "remove" /\ del'.pc = "idle"

\* a request that only reads is answered
ReadAnswered ==
  answer = NoAnswer /\ answer'.op \in {"search", "list", "status", "image"}

\* a refresh is generating the summary image
SummaryStep ==
  \E p \in Procs :
    /\ refresh[p].pc \in {"count", "findTop", "toFile"}
    /\ refresh'[p] # refresh[p]

\* C20: the store changes only when a refresh writes a record, which removes
\* no row and changes at most the one row it writes, or when a delete removes
\* the rows it found, which adds and changes no row; search, list, status,
\* image retrieval and the generation of the summary image leave every row
\* as it was.
C20_OnlyRefreshAndDeleteWrite ==
  [][/\ store' # store => ((\E p \in Procs : WritesRecord(p)) \/ DeleteRemoves)
     /\ (\E p \in Procs : WritesRecord(p)) =>
          /\ Ids(store) \subseteq Ids(store')
          /\ Cardinality(store \ store') <= 1
          /\ Cardinality(store' \ store) <= 1
     /\ DeleteRemoves => store' \subseteq store
     /\ ReadAnswered => store' = store
     /\ SummaryStep => store' = store]_vars

\* a refresh of two records has ended as a success on the seeded
\* store: it has changed the store and every seeded row is still there
C20_Witness ==
  \E p \in Done :
    /\ refresh[p].error = NoError
    /\ hist[p].written = 2
    /\ hist[p].startStore = Seeded
    /\ store # Seeded
    /\ Ids(Seeded) \subseteq Ids(store)
    /\ Cardinality(store) > Cardinality(Seeded)

\* ----------------------------------------------------------------------- C21
\* GET /countries/image is answered
ImageAnswered == answer = NoAnswer /\ answer'.op = "image"

\* a summary generation writes the file
GeneratesImage ==
  \E p \in Procs : refresh[p].pc = "toFile" /\ refresh'[p].pc = "done" /\ ~hist'[p].genFailed

C22_ImageFollowsStore ==
  (Idle /\ image.exists) =>
    /\ image.total = Cardinality(store)
    /\ Len(image.top) = (IF Cardinality(store) < TopN THEN Cardinality(store) ELSE TopN)
    /\ \A i \in 1..Len(image.top) : \E r \in store : r.name = image.top[i][1]

\* ----------------------------------------------------------------------- C23
\* GET /countries/status is answered
StatusAnswered == answer = NoAnswer /\ answer'.op = "status"

\* C23: the status answer gives as total_countries the number of stored rows
\* and as last_refreshed_at the latest last_refreshed_at of a stored row, or
\* null when the store is empty.
C23_StatusOfStore ==
  [][StatusAnswered =>
       /\ answer'.status = HttpOk
       /\ answer'.count = Cardinality(store)
       /\ IF store = {}
          THEN answer'.at = Null
          ELSE /\ answer'.at # Null
               /\ \E r \in store : r.last_refreshed_at = Val(answer'.at)
               /\ \A r \in store : r.last_refreshed_at <= Val(answer'.at)]_vars

\* the status has been answered for a store whose rows were last written at
\* different times
C23_Witness ==
  /\ answer.op = "status"
  /\ answer.count = Cardinality(store)
  /\ answer.count > 1
  /\ \E r \in store : answer.at = Some(r.last_refreshed_at)
  /\ \E r \in store : answer.at # Some(r.last_refreshed_at)

\* ----------------------------------------------------------------------- C24
\* the calls of a refresh in the order the claim gives them
CallOrder == <<"countries", "countries ok", "rates", "rates ok", "store">>

IsPrefix(s, t) == Len(s) <= Len(t) /\ \A i \in 1..Len(s) : s[i] = t[i]

Called(p, c) == \E i \in 1..Len(hist[p].calls) : hist[p].calls[i] = c

\* the refresh has ended because the countries API failed
CountriesFetchFailed(p) ==
  /\ p \in Done
  /\ refresh[p].error.details = "Could not fetch data from Countries API"

\* C24: a refresh calls the rates API only after the countries API has
\* answered, and the store only after both have answered; it has read or
\* written the store only after that; when the countries API fails the rates
\* API is never called.
C24_FetchOrder ==
  \A p \in Procs :
    /\ IsPrefix(hist[p].calls, CallOrder)
    /\ (hist[p].written > 0 \/ refresh[p].pc \in {"findOne", "write", "count", "findTop", "toFile"})
         => Called(p, "rates ok")
    /\ CountriesFetchFailed(p) => (~Called(p, "rates") /\ ~Called(p, "store"))

\* the countries API has failed and the refresh has ended
C24_Witness ==
  \E p \in Procs :
    /\ CountriesFetchFailed(p)
    /\ hist[p].calls = <<"countries">>
    /\ \E q \in Procs : q # p /\ refresh[q].pc = "answered" /\ last.some

\* ----------------------------------------------------------------------- C25
\* the record's first currency has a code and the rates have no entry for it
CodeWithoutRate(c, rates) ==
  /\ ~NoCurrencies(c)
  /\ ~IsNull(c.currencies.codes[1])
  /\ IsNull(rates[Val(c.currencies.codes[1])])

\* C25: a record whose first currency code has no entry in the rates is
\* transformed, and written, with that currency_code, no exchange_rate and
\* estimated_gbp 0; the refresh goes on to the next record, or to the summary,
\* and when it ends with an error the error is one the database raised.
C25_CodeWithoutRate ==
  [][\A p \in Procs :
       /\ (Transformed(p)' /\ CodeWithoutRate(Current(p)', refresh'[p].exchangeRates)) =>
            LET d == Val(refresh'[p].countryData)
            IN /\ d.currency_code = Current(p)'.currencies.codes[1]
               /\ IsNull(d.exchange_rate)
               /\ d.estimated_gbp = 0
       /\ (WritesRecord(p) /\ CodeWithoutRate(Current(p), refresh[p].exchangeRates)) =>
            /\ refresh'[p].pc \in {"findOne", "count"}
            /\ refresh'[p].error = NoError
            /\ \E r \in store' :
                 /\ r.currency_code = Current(p).currencies.codes[1]
                 /\ IsNull(r.exchange_rate)
                 /\ r.estimated_gbp = 0
       /\ (refresh[p].pc \in {"findOne", "write"} /\ refresh'[p].pc = "done"
             /\ CodeWithoutRate(Current(p), refresh[p].exchangeRates)) =>
            hist'[p].cause \in DbErrors]_vars

\* a refresh has ended as a success after writing a record with a positive
\* population whose currency the rates do not have, and the record after it
C25_Witness ==
  \E p \in Done :
    /\ refresh[p].error = NoError
    /\ refresh[p].countries = RecordPair
    /\ hist[p].written = 2
    /\ CodeWithoutRate(refresh[p].countries[1], refresh[p].exchangeRates)
    /\ \E r \in store :
         r.currency_code = Some("EUR") /\ IsNull(r.exchange_rate) /\ r.estimated_gbp = 0

\* ----------------------------------------------------------------------- C26
\* the names differ in letter case only
DifferInCase(a, b) == a # b /\ ToLowerCase(a) = ToLowerCase(b)

\* refresh p writes a record whose name no stored row has, while stored rows
\* have a name that differs from it in case only
WritesOtherCase(p) ==
  /\ WritesRecord(p)
  /\ \A r \in store : r.name # Val(refresh[p].countryData).name
  /\ \E r \in store : DifferInCase(r.name, Val(refresh[p].countryData).name)

\* a search is answered with rows
SearchAnswered == answer = NoAnswer /\ answer'.op = "search" /\ answer'.status = HttpOk

\* the rows whose name is the name searched for, letter case ignored
NamedIgnoringCase(rows, q) ==
  {r \in rows : ToLowerCase(r.name) = ToLowerCase(Trim(q.s))}

\* C26 as stated: a record whose name differs only in letter case from the
\* name of a stored row is inserted as a row of its own, next to that row; a
\* search for the name returns every row that has it in whatever case.
C26_LookupIsCaseSensitive ==
  [][/\ \A p \in Procs :
          WritesOtherCase(p) =>
            /\ Cardinality(store') = Cardinality(store) + 1
            /\ store \subseteq store'
     /\ SearchAnswered => NamedIgnoringCase(store, answer'.query) \subseteq answer'.rows]_vars

\* C26, amended: a record whose name differs only in letter case from the
\* name of a stored row is inserted as a row of its own when the collation of
\* the name column distinguishes case; when it does not, the record
\* overwrites that row, name included, and no row is added; a search for the
\* name returns every row that has it in whatever case.
C26_LookupFollowsCollation ==
  [][/\ \A p \in Procs :
          WritesOtherCase(p) =>
            LET d == Val(refresh[p].countryData)
            IN IF collation = "bin"
               THEN /\ Cardinality(store') = Cardinality(store) + 1
                    /\ store \subseteq store'
                    /\ \E r \in store' \ store : DataOf(r) = d
               ELSE /\ Cardinality(store') = Cardinality(store)
                    /\ Ids(store') = Ids(store)
                    /\ \E r \in store, r2 \in store' :
                         /\ DifferInCase(r.name, d.name)
                         /\ r2.id = r.id
                         /\ DataOf(r2) = d
                         /\ store' \ {r2} = store \ {r}
     /\ SearchAnswered => NamedIgnoringCase(store, answer'.query) \subseteq answer'.rows]_vars

\* under a collation that distinguishes case, a search has returned two rows
\* whose names differ in case only
C26_Witness ==
  /\ collation = "bin"
  /\ answer.op = "search"
  /\ answer.status = HttpOk
  /\ \E r1, r2 \in answer.rows :
       /\ r1.name = NameAb
       /\ r2.name = NameLowerAb
       /\ r1 \in store
       /\ r2 \in store

\* ----------------------------------------------------------------------- C27
\* C27 as stated: while a refresh is suspended at an await, no other refresh
\* starts or takes a step.
C27_RefreshesNeverInterleave ==
  [][\A p, q \in Procs :
       (p # q /\ p \in Running /\ refresh[q].pc # "done") =>
         refresh'[q].pc = refresh[q].pc]_vars

\* the positions a refresh can be at, each with the positions that follow it:
\* the awaits of refreshCountriesandSave and generateSummaryImage in program
\* order, any of which may also end the refresh
StepOrder ==
  { <<"idle", "fetchCountries">>,
    <<"fetchCountries", "fetchRates">>, <<"fetchCountries", "done">>,
    <<"fetchRates", "findOne">>, <<"fetchRates", "count">>, <<"fetchRates", "done">>,
    <<"findOne", "write">>, <<"findOne", "done">>,
    <<"write", "findOne">>, <<"write", "count">>, <<"write", "done">>,
    <<"count", "findTop">>, <<"count", "done">>,
    <<"findTop", "toFile">>, <<"findTop", "done">>,
    <<"toFile", "done">>,
    <<"done", "answered">> }

\* C27, amended: a refresh suspended at an await lets another refresh start
\* and take steps; each step is a step of one refresh, leaves the local
\* variables of the other as they are, and takes its refresh to a position
\* that follows in program order.
C27_InterleaveInProgramOrder ==
  [][\A p \in Procs :
       refresh'[p] # refresh[p] =>
         /\ <<refresh[p].pc, refresh'[p].pc>> \in StepOrder
         /\ \A q \in Procs \ {p} : refresh'[q] = refresh[q]]_vars

\* two refreshes are inside the loop at once: one has written its first
\* record and is about to look up its second, the other has looked up its
\* first record and not yet written it
C27_Witness ==
  \E p, q \in Procs :
    /\ p # q
    /\ refresh[p].pc = "findOne"
    /\ hist[p].written = 1
    /\ refresh[q].pc = "write"
    /\ hist[q].written = 0

\* ----------------------------------------------------------------------- C28
\* the stored rows that have the name
Named(rows, name) == {r \in rows : r.name = name}

\* refresh p writes a record that its lookup did not find, while the store
\* has, by now, a row of that name
InsertsStoredName(p) ==
  /\ WritesRecord(p)
  /\ IsNull(refresh[p].existingCountry)
  /\ Named(store, Val(refresh[p].countryData).name) # {}

\* C28: when the lookup of a refresh found no row of a name and another
\* refresh has inserted that name before the first one writes, the first
\* inserts too: the insert is not rejected, the refresh goes on, and the store
\* has one more row of that name than before, at least two.
C28_BothInsert ==
  [][\A p \in Procs :
       InsertsStoredName(p) =>
         LET d == Val(refresh[p].countryData)
         IN /\ store \subseteq store'
            /\ Cardinality(Named(store', d.name)) = Cardinality(Named(store, d.name)) + 1
            /\ Cardinality(Named(store', d.name)) >= 2
            /\ refresh'[p].error = NoError]_vars

\* both refreshes have ended as a success and the store has two rows of the
\* same name
C28_Witness ==
  /\ \A p \in Procs : p \in Done /\ refresh[p].error = NoError
  /\ \E r1, r2 \in store : r1.id # r2.id /\ r1.name = r2.name /\ r1.name = NameAb

\* ----------------------------------------------------------------------- C29
\* refresh p updates by the id its lookup found, and no row has that id now
UpdatesRemovedRow(p) ==
  /\ WritesRecord(p)
  /\ ~IsNull(refresh[p].existingCountry)
  /\ \A r \in store : r.id # Val(refresh[p].existingCountry)

\* C29: when the row a refresh has looked up is removed before the refresh
\* updates it, the update changes no row and raises no error: the refresh goes
\* on to its next step, and, unless another refresh has been running beside
\* it, the store has no row of the record.
C29_UpdateOfRemovedRow ==
  [][\A p \in Procs :
       UpdatesRemovedRow(p) =>
         /\ store' = store
         /\ refresh'[p].error = NoError
         /\ refresh'[p].pc \in {"findOne", "count"}
         /\ ~hist[p].overlapped =>
              \A r \in store' : ~SameName(collation, r.name, Val(refresh[p].countryData).name)]_vars

\* a refresh that ran alone has ended as a success, one of its updates
\* affected no row, and the store is empty
C29_Witness ==
  \E p \in Done :
    /\ ~hist[p].overlapped
    /\ refresh[p].error = NoError
    /\ refresh[p].status = HttpCreated
    /\ hist[p].written = 2
    /\ hist[p].lost = 1
    /\ store = {}

\* ----------------------------------------------------------------------- C30
\* the name a source record is stored under
StoredName(c) == IF c.name = <<>> THEN NameUnknown ELSE c.name

\* the places of the source records that are stored under the name
Places(data, name) == {i \in 1..Len(data) : StoredName(data[i]) = name}

\* the last of the places
LastPlace(data, name) ==
  CHOOSE i \in Places(data, name) : \A j \in Places(data, name) : j <= i

\* C30: a refresh looks up and writes its records one at a time in source
\* order, record i after the first i - 1 have been written; when it has
\* written them all, a name that the source lists more than once has exactly
\* one row, which holds the data of the last record of that name.
C30_OneRowForRepeatedName ==
  \A p \in Procs :
    /\ refresh[p].pc \in {"findOne", "write"} => hist[p].written = refresh[p].idx - 1
    /\ (p \in Done /\ hist[p].written = Len(refresh[p].countries)) =>
         \A i \in 1..Len(refresh[p].countries) :
           LET data == refresh[p].countries
               name == StoredName(data[i])
           IN Cardinality(Places(data, name)) > 1 =>
                /\ Cardinality({r \in store : r.name = name}) = 1
                /\ \A r \in store :
                     r.name = name =>
                       \E u \in RandomDraws :
                         DataOf(r) = Transform(data[LastPlace(data, name)],
                                               refresh[p].exchangeRates, u)

\* a refresh has written two records without a name: the store has one row
\* named Unknown, with the population of the second
C30_Witness ==
  \E p \in Done :
    /\ refresh[p].countries = <<RawNameless, RawOdd>>
    /\ hist[p].written = 2
    /\ Cardinality({r \in store : r.name = NameUnknown}) = 1
    /\ \A r \in store : r.name = NameUnknown => r.population = -5
    /\ Cardinality(store) > 1

====
